---- MODULE Spec2Model ----
(***************************************************************************)
(* A model of fhnw/nlp/utils/processing.py: one call of                   *)
(* parallelize_dataframe(df, func, **func_params), the process pool it     *)
(* creates, the partition tasks the pool's workers run and the finalizer   *)
(* the call ends with.                                                     *)
(*                                                                         *)
(* A dataframe is a sequence of rows; a row is a function from column      *)
(* names to integers. A series is a sequence of [idx, val] entries, idx    *)
(* being the index label (the position of the row in the input).           *)
(* DataFrame.apply / Series.map are modelled by their documented row-wise  *)
(* meaning: one call of the function per row, in row order.                *)
(***************************************************************************)
EXTENDS Integers, Sequences, FiniteSets, TLC

\* ---------------------------------------------------------------- bounds
MaxRows == 3
MaxJobs == 2

\* psutil.cpu_count(logical=True) of the host the call runs on
CpuCount == 2

\* ---------------------------------------------------------------- inputs
Columns == <<"id", "x">>
\* the values of column "x": 0 is the value the dividing functions raise on
Values == {0, 1}

\* The keys parallelize_dataframe itself reads from func_params
ControlKeys == {"finalizer_func", "n_jobs", "field_write", "raw", "field_read"}

\* Names bound at module level of processing.py (imports and defs)
ModuleGlobals ==
    {"TransformerMixin", "BaseEstimator", "Preprocessor", "parallelize_dataframe",
     "_transform_sub_df_by_field", "_transform_sub_df_by_row",
     "provide_concated_dfs", "provide_computed_df",
     "provide_computed_series_as_list", "is_iterable", "identity"}

Finalizers ==
    {"provide_concated_dfs", "provide_computed_df", "provide_computed_series_as_list"}

\* ---------------------------------------------------------------- helpers
Min(a, b) == IF a < b THEN a ELSE b

Range(s) == {s[i] : i \in 1..Len(s)}

RECURSIVE Flatten(_)
Flatten(ss) == IF ss = <<>> THEN <<>> ELSE Head(ss) \o Flatten(Tail(ss))

\* dict.pop(key, default) / dict.get(key): the value read
DictGet(d, key, default) == IF key \in DOMAIN d THEN d[key] ELSE default

\* dict.pop(key, ...): the dict that is left
DictPop(d, key) == [k \in (DOMAIN d) \ {key} |-> d[k]]

\* The keys of a dict in iteration order (what *d unpacks to). The inputs
\* hold at most one key that is not a control key, so the order is fixed.
KeyOrder == <<"finalizer_func", "n_jobs", "field_write", "raw", "field_read", "inc">>

DictKeys(d) == SelectSeq(KeyOrder, LAMBDA k : k \in DOMAIN d)

\* ---------------------------------------------------------------- transform functions
\* The callers' functions the inputs draw from:
\*   identity(x)          return x                         (processing.py)
\*   recip(v, inc=0)      return 2 // v + inc              (a column value)
\*   by_name(row, inc=0)  return row["id"] // row["x"] + inc
\*   by_pos(row, inc=0)   return row[0] // row[1] + inc
\*   clobber(row, inc=0)  row["x"] = 0; return row["id"] + inc
TransformFuncs == {"identity", "recip", "by_name", "by_pos", "clobber"}

Ok(v) == [ok |-> TRUE, val |-> v, exc |-> ""]

Raise(e) == [ok |-> FALSE, val |-> 0, exc |-> e]

\* Python's binding of the arguments after the first to the signature (inc=0):
\* positional arguments first, then keywords.
BindInc(posargs, kwargs) ==
    IF Len(posargs) > 1 \/ ~(DOMAIN kwargs \subseteq {"inc"})
          \/ (Len(posargs) = 1 /\ "inc" \in DOMAIN kwargs)
    THEN [ok |-> FALSE, isstr |-> FALSE, inc |-> 0]
    ELSE IF Len(posargs) = 1
         THEN [ok |-> TRUE, isstr |-> TRUE, inc |-> 0]   \* inc is bound to a str
         ELSE [ok |-> TRUE, isstr |-> FALSE, inc |-> DictGet(kwargs, "inc", 0)]

\* a // b + inc, evaluated left to right
DivPlusInc(a, b, bound) ==
    IF b = 0 THEN Raise("ZeroDivisionError")
    ELSE IF bound.isstr THEN Raise("TypeError")
    ELSE Ok((a \div b) + bound.inc)

\* One call func(arg, *posargs, **kwargs). kind says what arg is: "value" (one
\* column value), "row" (a row with named fields) or "raw" (a positional tuple
\* of the row's values).
CallFunc(func, kind, arg, posargs, kwargs) ==
    IF func = "identity"
    THEN IF posargs # <<>> \/ DOMAIN kwargs # {}
         THEN Raise("TypeError")
         ELSE IF kind = "value" THEN Ok(arg) ELSE Raise("NonScalar")
    ELSE LET bound == BindInc(posargs, kwargs) IN
         IF ~bound.ok THEN Raise("TypeError")
         ELSE CASE func = "recip" ->
                     IF kind = "value" THEN DivPlusInc(2, arg, bound)
                     ELSE Raise("NonScalar")
                [] func = "by_name" ->
                     IF kind = "row" THEN DivPlusInc(arg["id"], arg["x"], bound)
                     ELSE IF kind = "raw" THEN Raise("IndexError")
                     ELSE Raise("TypeError")
                [] func = "by_pos" ->
                     IF kind = "raw" THEN DivPlusInc(arg[1], arg[2], bound)
                     ELSE IF kind = "value" THEN Raise("TypeError")
                     ELSE Raise("NonScalar")
                [] func = "clobber" ->
                     IF kind = "row" THEN DivPlusInc(arg["id"], 1, bound)
                     ELSE IF kind = "raw" THEN Raise("IndexError")
                     ELSE Raise("TypeError")

\* Whether the call func(arg, *posargs, **kwargs) writes to its first argument
WritesToArg(func, kind, posargs, kwargs) ==
    func = "clobber" /\ kind = "row" /\ BindInc(posargs, kwargs).ok

\* The (func, mode) pairs in which func returns one scalar per row
WellTyped(func, field_read, raw) ==
    IF field_read # "None" THEN func \in {"identity", "recip"}
    ELSE IF raw THEN func \in {"by_name", "by_pos"}
    ELSE func \in {"by_name", "clobber"}

\* ---------------------------------------------------------------- partition tasks
\* A row's values as a positional tuple (raw=True)
RawValues(row) == [i \in 1..Len(Columns) |-> row[Columns[i]]]

\* Series of the per-row calls of one partition: the first call that raises
\* ends the task with its exception.
SeriesOf(part, calls) ==
    LET bad == {i \in 1..Len(part) : ~calls[i].ok} IN
    IF bad = {}
    THEN [ok |-> TRUE, exc |-> "",
          series |-> [i \in 1..Len(part) |-> [idx |-> part[i].idx, val |-> calls[i].val]]]
    ELSE [ok |-> FALSE, series |-> <<>>,
          exc |-> calls[CHOOSE i \in bad : \A j \in bad : i <= j].exc]

\* sub_func_with_params = partial(func, **func_params): the remaining entries
\* are keyword arguments of every call
FieldCallArgs(params) == [posargs |-> <<>>, kwargs |-> params]

\* df.apply(func, axis=1, raw=raw, args=func_params): the dict is handed over
\* as apply's positional args, and apply calls func(row, *args), so func gets
\* the dict's keys as positional arguments and no keyword argument
RowCallArgs(params) == [posargs |-> DictKeys(params), kwargs |-> <<>>]

\* df[field_read].map(f): f gets the value of the column, one row at a time
FieldCallArg(field_read, item) == [kind |-> "value", arg |-> item.row[field_read]]

\* mutant: raw is not handed to apply, the row always has named fields
RowCallArgNamed(raw, item) == [kind |-> "row", arg |-> item.row]

\* df.apply(f, axis=1, raw=raw): f gets the row, as a row with named fields
\* or, with raw, as the positional tuple of its values
RowCallArg(raw, item) ==
    IF raw THEN [kind |-> "raw", arg |-> RawValues(item.row)]
    ELSE [kind |-> "row", arg |-> item.row]

\* series = df[field_read].map(func_with_params)
TransformSubDfByField(field_read, func, params, part) ==
    LET a == FieldCallArgs(params) IN
    SeriesOf(part, [i \in 1..Len(part) |->
                      LET first == FieldCallArg(field_read, part[i])
                      IN CallFunc(func, first.kind, first.arg, a.posargs, a.kwargs)])

\* series = df.apply(func, axis=1, raw=raw, args=func_params)
TransformSubDfByRow(raw, func, params, part) ==
    LET a == RowCallArgs(params) IN
    SeriesOf(part, [i \in 1..Len(part) |->
                      LET first == RowCallArg(raw, part[i])
                      IN CallFunc(func, first.kind, first.arg, a.posargs, a.kwargs)])

\* the first argument of the call of func a task makes for one row
TaskCallArg(fwp, item) ==
    IF fwp.task = "_transform_sub_df_by_field"
    THEN FieldCallArg(fwp.field_read, item)
    ELSE RowCallArg(fwp.raw, item)

\* the arguments after the first of every call of func a task makes
TaskCallArgs(fwp) ==
    IF fwp.task = "_transform_sub_df_by_field"
    THEN FieldCallArgs(fwp.params)
    ELSE RowCallArgs(fwp.params)

\* The partition a worker holds after it ran the task on it: the rows the
\* function was called on (all, or those up to the call that raised) carry
\* what the function wrote to them
PartAfterTask(fwp, part) ==
    LET a == TaskCallArgs(fwp)
        calls == [i \in 1..Len(part) |->
                    LET first == TaskCallArg(fwp, part[i])
                    IN CallFunc(fwp.func, first.kind, first.arg, a.posargs, a.kwargs)]
        called(i) == \A j \in 1..(i - 1) : calls[j].ok
    IN [i \in 1..Len(part) |->
          IF called(i) /\ WritesToArg(fwp.func, TaskCallArg(fwp, part[i]).kind, a.posargs, a.kwargs)
          THEN [part[i] EXCEPT !.row = [c \in DOMAIN part[i].row |->
                                          IF c = "x" THEN 0 ELSE part[i].row[c]]]
          ELSE part[i]]

\* mutant: the worker's partition is the caller's data, not a copy of it
CallerFrameShared(d, part_after) ==
    [i \in 1..Len(d) |->
        IF \E j \in 1..Len(part_after) : part_after[j].idx = i
        THEN LET item == part_after[CHOOSE j \in 1..Len(part_after) : part_after[j].idx = i]
             IN [c \in DOMAIN d[i] |-> IF c \in DOMAIN item.row THEN item.row[c] ELSE d[i][c]]
        ELSE d[i]]

\* The caller's dataframe after a worker ran its task: pool.map sends every
\* partition to a worker process by value, what a task does to its partition
\* stays in that process
CallerFrame(d, part_after) == d

\* func_with_params(part): the partial built at lines 85-86 or 90
RunTask(fwp, part) ==
    IF fwp.task = "_transform_sub_df_by_field"
    THEN TransformSubDfByField(fwp.field_read, fwp.func, fwp.params, part)
    ELSE TransformSubDfByRow(fwp.raw, fwp.func, fwp.params, part)

\* ---------------------------------------------------------------- splitting
\* np.array_split(read_df, n): n contiguous sections, the first (len % n) of
\* size len // n + 1, the others of size len // n
\* mutant: the remainder rows are not spread over the first sections
SectionStartNoRemainder(total, n, k) == (k - 1) * (total \div n)

SectionStart(total, n, k) == (k - 1) * (total \div n) + Min(k - 1, total % n)

\* mutant: every section has len // n rows, the remainder is dropped
SectionSizeFloor(total, n, k) == total \div n

SectionSize(total, n, k) == (total \div n) + (IF k <= total % n THEN 1 ELSE 0)

\* mutant: sections of a fixed size len // n + 1, the last ones short or empty
ArraySplitChunked(s, n) ==
    [k \in 1..n |-> SubSeq(s, (k - 1) * ((Len(s) \div n) + 1) + 1,
                              Min(k * ((Len(s) \div n) + 1), Len(s)))]

ArraySplit(s, n) ==
    [k \in 1..n |-> SubSeq(s, SectionStart(Len(s), n, k) + 1,
                              SectionStart(Len(s), n, k) + SectionSize(Len(s), n, k))]

\* pd.concat(list of series): the entries of the series, in list order
Concat(serieses) == Flatten(serieses)

\* ---------------------------------------------------------------- state
VARIABLES
    df,               \* the caller's dataframe
    func,             \* the transform function
    func_params,      \* the keyword dict of the call (popped from as the call runs)
    call_params,      \* the keyword arguments as the caller passed them
    self_func_params, \* Preprocessor: the stored self.func_params
    first_outcome,    \* Preprocessor, history: the calls made and what the first gave
    pc,               \* where the call is
    n_jobs, field_write, raw, field_read, finalizer_func,   \* the call's locals
    func_with_params, \* the bound partition task
    df_split,         \* the partitions, in split order
    pool,             \* "none", "run", "close" or "joined"
    workers,          \* worker process -> "idle", "busy" or "exited"
    taskqueue,        \* partition indices waiting for a worker
    running,          \* worker process -> the partition it runs (0: none)
    ran_by,           \* partition -> the worker that took it (0: not taken)
    results,          \* partition -> the task's outcome once it completed
    map_exc,          \* the first exception a task completed with ("" : none)
    out_of_order,     \* history: a task completed before one of a lower index
    write_df,         \* the concatenated result series
    ret,              \* what the call returned
    exc,              \* the exception the call raised ("" : none)
    params,           \* params.py: the params dict the functions are called with
    data,             \* params.py: the dataframe they are called with
    params_before,    \* params.py, history: params when the last call began
    params0,          \* params.py, history: params before any call
    outcome           \* params.py: how the last call ended

vars == <<df, func, func_params, call_params, self_func_params, first_outcome, pc, n_jobs, field_write, raw, field_read,
          finalizer_func, func_with_params, df_split, pool, workers, taskqueue,
          running, ran_by, results, map_exc, out_of_order, write_df, ret, exc,
          params, data, params_before, params0, outcome>>

params_vars == <<params, data, params_before, params0, outcome>>

\* what a call of parallelize_dataframe never assigns
fixed_vars == <<func, call_params, self_func_params, first_outcome, params_vars>>

input_vars == <<df, fixed_vars>>

local_vars == <<n_jobs, field_write, raw, field_read, finalizer_func, func_with_params>>

pool_vars == <<pool, workers, taskqueue, running, ran_by, results, map_exc, out_of_order>>

\* ---------------------------------------------------------------- inputs of a call
\* The dataframes: up to MaxRows rows, "id" the row's number, "x" any value
Dataframes ==
    UNION {{[i \in 1..n |-> [id |-> i, x |-> xs[i]]] : xs \in [1..n -> Values]} : n \in 0..MaxRows}

Opt(present, key, value) == IF present THEN key :> value ELSE <<>>

NoResult == [done |-> FALSE, ok |-> FALSE, series |-> <<>>, exc |-> ""]

NoReturn == [kind |-> "none", columns |-> <<>>, index |-> <<>>, data |-> <<>>]

NoTask == [task |-> "None", field_read |-> "None", raw |-> FALSE, func |-> "None", params |-> <<>>]

NoOutcome == [calls |-> 0, ok |-> FALSE, exc |-> "", value |-> NoReturn]

\* a value of params.py: what it is and what was decided for it
NoValue == [kind |-> "None", detail |-> <<>>]

NoCall == [ok |-> FALSE, exc |-> "", names |-> "", value |-> NoValue]

NoData == [label |-> [ndim |-> 1, values |-> <<>>], token_clean |-> <<>>]

\* no function of params.py is involved
ParamsIdle ==
    /\ params = <<>> /\ data = NoData /\ params_before = <<>> /\ params0 = <<>>
    /\ outcome = NoCall

\* The dataframe, the function and the keyword arguments
Inputs ==
    /\ df \in Dataframes
    /\ \E nj \in -1..MaxJobs, fr \in {"None", "x"}, rw \in BOOLEAN, fw \in {"None", "x2"},
          fin \in Finalizers, inc \in 0..1 :
          /\ call_params =
                Opt(nj >= 0, "n_jobs", nj) @@ Opt(fr # "None", "field_read", fr)
                @@ Opt(rw, "raw", TRUE) @@ Opt(fw # "None", "field_write", fw)
                @@ Opt(fin # "provide_concated_dfs", "finalizer_func", fin)
                @@ Opt(inc > 0, "inc", inc)
          /\ func \in {f \in TransformFuncs : WellTyped(f, fr, rw)}
    /\ self_func_params = call_params
    /\ first_outcome = NoOutcome
    /\ ParamsIdle

\* The locals and the pool of a call that has not run a line yet
NotStarted ==
    /\ n_jobs = 0 /\ field_write = "None" /\ raw = FALSE /\ field_read = "None"
    /\ finalizer_func = "None" /\ func_with_params = NoTask
    /\ df_split = <<>>
    /\ pool = "none" /\ workers = <<>> /\ taskqueue = <<>> /\ running = <<>>
    /\ ran_by = <<>> /\ results = <<>> /\ map_exc = "" /\ out_of_order = FALSE
    /\ write_df = <<>> /\ ret = NoReturn /\ exc = ""

Init ==
    /\ Inputs
    /\ func_params = call_params
    /\ pc = "start"
    /\ NotStarted

\* ---------------------------------------------------------------- parallelize_dataframe
\* mutant: the whole rows are sent to the workers
ReadDfFull(d, fr) == [i \in 1..Len(d) |-> [idx |-> i, row |-> d[i]]]

\* read_df: the rows sent to the workers, each with its index label; with
\* field_read only that column is kept (df[field_read].to_frame(field_read))
ReadDf(d, fr) ==
    [i \in 1..Len(d) |->
        [idx |-> i,
         row |-> IF fr # "None" THEN [c \in {fr} |-> d[i][c]] ELSE d[i]]]

\* mutant: the given n_jobs is ignored
EffectiveJobsAlwaysCpu(given) == CpuCount

\* lines 72-75: n_jobs as given if positive, else the host's processor count
EffectiveJobs(given) == IF given <= 0 THEN CpuCount ELSE given

\* lines 71-92: the control options read from the keyword dict, the dict
\* that is left, the bound task and the partitions
Prepared(d, f, kwargs) ==
    LET fin == DictGet(kwargs, "finalizer_func", "provide_concated_dfs")
        p1  == DictPop(kwargs, "finalizer_func")
        nj0 == DictGet(p1, "n_jobs", -1)
        nj  == EffectiveJobs(nj0)
        p2  == DictPop(p1, "n_jobs")
        fw  == DictGet(p2, "field_write", "output")
        p3  == DictPop(p2, "field_write")
        rw  == DictGet(p3, "raw", FALSE)
        p4  == DictPop(p3, "raw")
        fr  == DictGet(p4, "field_read", "None")
        p5  == IF fr # "None" THEN DictPop(p4, "field_read") ELSE p4
    IN [finalizer_func |-> fin, n_jobs |-> nj, field_write |-> fw, raw |-> rw,
        field_read |-> fr, func_params |-> p5,
        func_with_params |->
            IF fr # "None"
            THEN [task |-> "_transform_sub_df_by_field", field_read |-> fr,
                  raw |-> FALSE, func |-> f, params |-> p5]
            ELSE [task |-> "_transform_sub_df_by_row", field_read |-> "None",
                  raw |-> rw, func |-> f, params |-> p5],
        df_split |-> ArraySplit(ReadDf(d, fr), nj)]

\* lines 71-92: read the control options, bind the task, split
Prepare ==
    /\ pc = "start"
    /\ LET q == Prepared(df, func, func_params)
       IN /\ finalizer_func' = q.finalizer_func
          /\ n_jobs' = q.n_jobs
          /\ field_write' = q.field_write
          /\ raw' = q.raw
          /\ field_read' = q.field_read
          /\ func_params' = q.func_params
          /\ func_with_params' = q.func_with_params
          /\ df_split' = q.df_split
    /\ pc' = "pool"
    /\ UNCHANGED <<input_vars, pool_vars, write_df, ret, exc>>

\* line 94: pool = Pool(n_jobs) starts n_jobs worker processes
PoolCreate ==
    /\ pc = "pool"
    /\ pool' = "run"
    /\ workers' = [w \in 1..n_jobs |-> "idle"]
    /\ running' = [w \in 1..n_jobs |-> 0]
    /\ pc' = "map"
    /\ UNCHANGED <<input_vars, func_params, local_vars, df_split, taskqueue, ran_by,
                   results, map_exc, out_of_order, write_df, ret, exc>>

\* line 95, pool.map called: one task per partition is queued (with as many
\* partitions as workers the chunk size of map is 1), the caller waits
MapDispatch ==
    /\ pc = "map"
    /\ taskqueue' = [k \in 1..Len(df_split) |-> k]
    /\ ran_by' = [k \in 1..Len(df_split) |-> 0]
    /\ results' = [k \in 1..Len(df_split) |-> NoResult]
    /\ pc' = "wait"
    /\ UNCHANGED <<input_vars, func_params, local_vars, df_split, pool, workers,
                   running, map_exc, out_of_order, write_df, ret, exc>>

\* mutant: get() leaves the task in the queue
QueueGetKeep(q) == q

\* the task queue after a worker's get(): the head is removed
QueueGet(q) == Tail(q)

\* an idle worker takes the next task from the pool's task queue
WorkerTake(w) ==
    /\ pool = "run"
    /\ workers[w] = "idle"
    /\ taskqueue # <<>>
    /\ workers' = [workers EXCEPT ![w] = "busy"]
    /\ running' = [running EXCEPT ![w] = Head(taskqueue)]
    /\ ran_by' = [ran_by EXCEPT ![Head(taskqueue)] = w]
    /\ taskqueue' = QueueGet(taskqueue)
    /\ UNCHANGED <<input_vars, func_params, local_vars, df_split, pc, pool, results,
                   map_exc, out_of_order, write_df, ret, exc>>

\* mutant: the outcome is stored at the first free position (completion order)
StoreResultByCompletion(res, k, r) ==
    LET free == CHOOSE j \in 1..Len(res) : ~res[j].done /\ \A i \in 1..(j - 1) : res[i].done
    IN [res EXCEPT ![free] = [done |-> TRUE, ok |-> r.ok, series |-> r.series, exc |-> r.exc]]

\* the outcome of task k is stored at position k of the map's result list;
\* the first exception is kept
StoreResult(res, k, r) == [res EXCEPT ![k] = [done |-> TRUE, ok |-> r.ok,
                                              series |-> r.series, exc |-> r.exc]]

\* mutant: a failed task is not recorded
FirstExceptionSwallowed(stored, r) == stored

\* MapResult._set: only the first exception is stored
FirstException(stored, r) == IF stored = "" /\ ~r.ok THEN r.exc ELSE stored

\* a worker runs func_with_params on its partition and sends the outcome back
WorkerFinish(w) ==
    /\ workers[w] = "busy"
    /\ LET k == running[w]
           r == RunTask(func_with_params, df_split[k])
       IN /\ results' = StoreResult(results, k, r)
          /\ map_exc' = FirstException(map_exc, r)
          /\ out_of_order' = (out_of_order \/ \E j \in 1..(k - 1) : ~results[j].done)
    /\ df' = CallerFrame(df, PartAfterTask(func_with_params, df_split[running[w]]))
    /\ workers' = [workers EXCEPT ![w] = "idle"]
    /\ running' = [running EXCEPT ![w] = 0]
    /\ UNCHANGED <<fixed_vars, func_params, local_vars, df_split, pc, pool,
                   taskqueue, ran_by, write_df, ret, exc>>

\* mutant: the wait ends with the first outcome
AnyDone == \E k \in 1..Len(results) : results[k].done

\* the wait of pool.map: every task of the job has sent its outcome
AllDone == \A k \in 1..Len(results) : results[k].done

\* line 95, pool.map returns once every task has completed: the list of the
\* tasks' series in task order, or the first exception re-raised; then pd.concat
MapCollect ==
    /\ pc = "wait"
    /\ AllDone
    /\ IF map_exc # ""
       THEN /\ exc' = map_exc
            /\ pc' = "raised"
            /\ UNCHANGED write_df
       ELSE /\ write_df' = Concat([k \in 1..Len(results) |-> results[k].series])
            /\ pc' = "close"
            /\ UNCHANGED exc
    /\ UNCHANGED <<input_vars, func_params, local_vars, df_split, pool_vars, ret>>

\* line 96: pool.close()
PoolClose ==
    /\ pc = "close"
    /\ pool' = "close"
    /\ pc' = "join"
    /\ UNCHANGED <<input_vars, func_params, local_vars, df_split, workers, taskqueue,
                   running, ran_by, results, map_exc, out_of_order, write_df, ret, exc>>

\* a worker of a closed pool exits once it has nothing left to do
WorkerExit(w) ==
    /\ pool = "close"
    /\ workers[w] = "idle"
    /\ taskqueue = <<>>
    /\ workers' = [workers EXCEPT ![w] = "exited"]
    /\ UNCHANGED <<input_vars, func_params, local_vars, df_split, pc, pool, taskqueue,
                   running, ran_by, results, map_exc, out_of_order, write_df, ret, exc>>

\* mutant: join() does not wait
NoWait == TRUE

\* what pool.join() waits for: every worker process has exited
AllExited == \A w \in 1..Len(workers) : workers[w] = "exited"

\* line 97: pool.join() returns when every worker process has exited
PoolJoin ==
    /\ pc = "join"
    /\ AllExited
    /\ pool' = "joined"
    /\ pc' = "finalize"
    /\ UNCHANGED <<input_vars, func_params, local_vars, df_split, workers, taskqueue,
                   running, ran_by, results, map_exc, out_of_order, write_df, ret, exc>>

\* ---------------------------------------------------------------- finalizers
Returned(v) == [ok |-> TRUE, exc |-> "", value |-> v]

Raised(e) == [ok |-> FALSE, exc |-> e, value |-> NoReturn]

\* mutant: the column gets the default name
ToFrameDefaultName(series, name) ==
    [kind |-> "table", columns |-> <<"output">>,
     index |-> [i \in 1..Len(series) |-> series[i].idx],
     data |-> [i \in 1..Len(series) |-> <<series[i].val>>]]

\* series.to_frame(name): a one-column table with the series' index
ToFrame(series, name) ==
    [kind |-> "table", columns |-> <<name>>,
     index |-> [i \in 1..Len(series) |-> series[i].idx],
     data |-> [i \in 1..Len(series) |-> <<series[i].val>>]]

\* series.to_list()
ToList(series) ==
    [kind |-> "list", columns |-> <<>>, index |-> <<>>,
     data |-> [i \in 1..Len(series) |-> <<series[i].val>>]]

\* a dataframe as a table
AsTable(frame) ==
    [kind |-> "table", columns |-> Columns,
     index |-> [i \in 1..Len(frame) |-> i],
     data |-> [i \in 1..Len(frame) |-> [c \in 1..Len(Columns) |-> frame[i][Columns[c]]]]]

\* pd.concat([left, right], axis=1) of two tables with the same index labels:
\* the columns of both, the rows matched by index label
ConcatAxis1(left, right) ==
    [kind |-> "table", columns |-> left.columns \o right.columns,
     index |-> left.index,
     data |-> [i \in 1..Len(left.index) |->
                 left.data[i] \o
                 right.data[CHOOSE j \in 1..Len(right.index) : right.index[j] = left.index[i]]]]

\* return pd.concat([df, computed_series.to_frame(field_write)], axis=1)
\* The body reads the names pd and df, which are no parameters of the function:
\* Python looks them up at module level when the line runs.
ProvideConcatedDfs(original_df, computed_series, fw) ==
    IF ~({"pd", "df"} \subseteq ModuleGlobals)
    THEN Raised("NameError")
    ELSE Returned(ConcatAxis1(AsTable(original_df), ToFrame(computed_series, fw)))

\* return computed_series.to_frame(field_write)
ProvideComputedDf(original_df, computed_series, fw) ==
    Returned(ToFrame(computed_series, fw))

\* return computed_series.to_list()
ProvideComputedSeriesAsList(original_df, computed_series, fw) ==
    Returned(ToList(computed_series))

CallFinalizer(fin, original_df, computed_series, fw) ==
    CASE fin = "provide_concated_dfs" -> ProvideConcatedDfs(original_df, computed_series, fw)
      [] fin = "provide_computed_df" -> ProvideComputedDf(original_df, computed_series, fw)
      [] fin = "provide_computed_series_as_list" ->
            ProvideComputedSeriesAsList(original_df, computed_series, fw)

\* line 99: return finalizer_func(df, write_df, field_write)
Finalize ==
    /\ pc = "finalize"
    /\ LET r == CallFinalizer(finalizer_func, df, write_df, field_write)
       IN IF r.ok
          THEN /\ ret' = r.value
               /\ pc' = "returned"
               /\ UNCHANGED exc
          ELSE /\ exc' = r.exc
               /\ pc' = "raised"
               /\ UNCHANGED ret
    /\ UNCHANGED <<input_vars, func_params, local_vars, df_split, pool_vars, write_df>>

\* ---------------------------------------------------------------- Preprocessor
\* What a whole call parallelize_dataframe(d, f, **kwargs) can end with: the
\* finalizer's outcome when every task succeeds, else one of the failed tasks'
\* exceptions (the one of the task that completed first)
CallOutcomes(d, f, kwargs) ==
    LET q == Prepared(d, f, kwargs)
        outs == [k \in 1..q.n_jobs |-> RunTask(q.func_with_params, q.df_split[k])]
        failed == {k \in 1..q.n_jobs : ~outs[k].ok}
    IN IF failed # {}
       THEN {Raised(outs[k].exc) : k \in failed}
       ELSE {CallFinalizer(q.finalizer_func, d,
                           Concat([k \in 1..q.n_jobs |-> outs[k].series]), q.field_write)}

\* mutant: the stored dict itself is handed to the call, which pops from it
StoredAfterCallShared(stored, callee_dict) == callee_dict

\* self.func_params after parallelize_dataframe(X, self.func, **self.func_params):
\* the ** builds the call's own keyword dict, the stored dict is left as it is
StoredAfterCall(stored, callee_dict) == stored

SelfRef == [kind |-> "self", columns |-> <<>>, index |-> <<>>, data |-> <<>>]

\* the history of the calls: their number (up to 2) and the first outcome
Noted(o) ==
    IF first_outcome.calls = 0
    THEN [calls |-> 1, ok |-> o.ok, exc |-> o.exc, value |-> o.value]
    ELSE [first_outcome EXCEPT !.calls = 2]

\* Preprocessor(func, **func_params) was constructed; X is df
AdapterInit ==
    /\ Inputs
    /\ func_params = <<>>
    /\ pc = "constructed"
    /\ NotStarted

\* lines 26-27: fit returns self
Fit ==
    /\ ret' = SelfRef
    /\ exc' = ""
    /\ pc' = "fit"
    /\ UNCHANGED <<input_vars, func_params, local_vars, df_split, pool_vars, write_df>>

\* return parallelize_dataframe(X, self.func, **self.func_params)
Delegate(method) ==
    /\ \E o \in CallOutcomes(df, func, self_func_params) :
          /\ ret' = o.value
          /\ exc' = o.exc
          /\ first_outcome' = Noted(o)
    /\ func_params' = Prepared(df, func, self_func_params).func_params
    /\ self_func_params' = StoredAfterCall(self_func_params, func_params')
    /\ pc' = method
    /\ UNCHANGED <<df, func, call_params, local_vars, df_split, pool_vars, write_df,
                   params_vars>>

\* lines 29-30
Transform == Delegate("transform")

\* lines 32-33
Predict == Delegate("predict")

AdapterNext == Fit \/ Transform \/ Predict

SpecAdapter == AdapterInit /\ [][AdapterNext]_vars

\* ---------------------------------------------------------------- specification
Next ==
    \/ Prepare
    \/ PoolCreate
    \/ MapDispatch
    \/ \E w \in 1..Len(workers) : WorkerTake(w)
    \/ \E w \in 1..Len(workers) : WorkerFinish(w)
    \/ MapCollect
    \/ PoolClose
    \/ \E w \in 1..Len(workers) : WorkerExit(w)
    \/ PoolJoin
    \/ Finalize

Spec == Init /\ [][Next]_vars

\* ---------------------------------------------------------------- params.py: options
\* the values the functions of params.py know for their categorical options
ClassificationTypes == {"binary", "multi-class", "multi-label"}

EmbeddingTypes == {"fasttext", "word2vec", "spacy", "tensorflow_hub", "bytepair"}

RnnTypes == {"LSTM", "GRU", "RNN"}

\* params.get("rnn_num_layers", 1)
DefaultRnnNumLayers == 1

\* the labels of the label column
Labels == {0, 1, 2}

Str(s) == [kind |-> "str", detail |-> <<s>>]

Object(kind, detail) == [kind |-> kind, detail |-> detail]

\* the call returned v
POk(v) == [ok |-> TRUE, exc |-> "", names |-> "", value |-> v]

\* the call raised e; names: the option value its message ends with ("" : none)
PRaise(e, named) == [ok |-> FALSE, exc |-> e, names |-> named, value |-> NoValue]

\* raise TypeError("Unknown <option> " + value): with the value None the
\* concatenation itself raises the TypeError, which names nothing
UnknownOption(value) == PRaise("TypeError", IF value = "None" THEN "" ELSE value)

\* mutant: two distinct labels already count as multi-class
GetClassificationTypeFromTwo(p, d) ==
    LET classification_type == DictGet(p, "classification_type", "None")
        y == d.label
    IN IF classification_type = "None"
       THEN IF y.ndim > 1 THEN "multi-label"
            ELSE IF Cardinality(Range(y.values)) >= 2 THEN "multi-class"
            ELSE "binary"
       ELSE classification_type

\* get_classification_type(params, data); y is data[y_column_name], of which
\* len(y.shape) is ndim and y.unique() the set of its values
GetClassificationType(p, d) ==
    LET classification_type == DictGet(p, "classification_type", "None")
        y == d.label
    IN IF classification_type = "None"
       THEN IF y.ndim > 1 THEN "multi-label"
            ELSE IF Cardinality(Range(y.values)) > 2 THEN "multi-class"
            ELSE "binary"
       ELSE classification_type

\* get_classification_type_and_set(params, data): params after the call
ParamsWithClassificationType(p, d) ==
    ("classification_type" :> GetClassificationType(p, d)) @@ p

\* get_label_binarize(params, data): the binarizer that is built and fitted
GetLabelBinarize(p, d) ==
    IF GetClassificationType(p, d) = "multi-label"
    THEN POk(Object("MultiLabelBinarizer", <<>>))
    ELSE POk(Object("LabelBinarizer", <<>>))

\* get_embedder(params)
GetEmbedder(p) ==
    IF "embedding_type" \notin DOMAIN p THEN PRaise("KeyError", "")
    ELSE LET embedding_type == p["embedding_type"] IN
         IF embedding_type = "fasttext" THEN POk(Object("embedder", <<"fasttext">>))
         ELSE IF embedding_type = "word2vec" THEN POk(Object("embedder", <<"word2vec">>))
         ELSE IF embedding_type = "spacy" THEN POk(Object("embedder", <<"spacy">>))
         ELSE IF embedding_type = "tensorflow_hub" THEN POk(Object("embedder", <<"tensorflow_hub">>))
         ELSE IF embedding_type = "bytepair" THEN POk(Object("embedder", <<"bytepair">>))
         ELSE UnknownOption(embedding_type)

\* get_loss_function(params)
GetLossFunction(p) ==
    LET classification_type == DictGet(p, "classification_type", "binary") IN
    IF classification_type = "binary" THEN POk(Str("binary_crossentropy"))
    ELSE IF classification_type = "multi-class" THEN POk(Str("categorical_crossentropy"))
    ELSE IF classification_type = "multi-label" THEN POk(Str("binary_crossentropy"))
    ELSE UnknownOption(classification_type)

\* lines 625-634 and 709-718: the activation of the prediction layer
OutputActivation(classification_type) ==
    IF classification_type = "binary" THEN POk(Str("sigmoid"))
    ELSE IF classification_type = "multi-class" THEN POk(Str("softmax"))
    ELSE IF classification_type = "multi-label" THEN POk(Str("sigmoid"))
    ELSE UnknownOption(classification_type)

\* build_model_cnn(params), with the computed objects it needs in params: the
\* model is told by its name and the activation of its prediction layer
BuildModelCnn(p) ==
    LET a == OutputActivation(DictGet(p, "classification_type", "binary")) IN
    IF a.ok THEN POk(Object("cnn", a.value.detail)) ELSE a

\* build_model_rnn(params), with the computed objects it needs in params: the
\* model is told by its name, its recurrent layers and the activation of its
\* prediction layer. rnn_type is looked at once per layer of the loop.
BuildModelRnn(p) ==
    LET rnn_num_layers == DictGet(p, "rnn_num_layers", DefaultRnnNumLayers)
        rnn_type == DictGet(p, "rnn_type", "LSTM")
        a == OutputActivation(DictGet(p, "classification_type", "binary"))
    IN IF rnn_num_layers > 0 /\ rnn_type \notin {"LSTM", "GRU", "RNN"}
       THEN UnknownOption(rnn_type)
       ELSE IF a.ok
            THEN POk(Object("rnn", [l \in 1..rnn_num_layers |-> rnn_type] \o a.value.detail))
            ELSE a

\* the variables of a parallelize_dataframe call, which params.py never touches
call_vars == <<df, func, func_params, call_params, self_func_params, first_outcome,
               local_vars, df_split, pool_vars, write_df, ret, exc>>

CallIdle ==
    /\ df = <<>> /\ func = "identity" /\ func_params = <<>> /\ call_params = <<>>
    /\ self_func_params = <<>> /\ first_outcome = NoOutcome
    /\ NotStarted

\* "" stands for a key that is not in params; "None" is the value None
ParamsDicts ==
    {Opt(ct # "", "classification_type", ct) @@ Opt(et # "", "embedding_type", et)
     @@ Opt(rt # "", "rnn_type", rt) @@ Opt(nl >= 0, "rnn_num_layers", nl) :
        ct \in ClassificationTypes \cup {"", "None", "multiclass"},
        et \in EmbeddingTypes \cup {"", "glove"},
        rt \in RnnTypes \cup {"", "lstm"},
        nl \in {-1, 0, 2}}

\* the label column: a series (ndim 1) of up to MaxRows labels, or a frame
\* (ndim 2), as data[y_column_name] is when several columns have that name
LabelColumns ==
    {[ndim |-> nd, values |-> v] :
        nd \in {1, 2}, v \in UNION {[1..n -> Labels] : n \in 0..MaxRows}}

ParamsInit ==
    /\ CallIdle
    /\ pc = "none"
    /\ params \in ParamsDicts
    /\ \E y \in LabelColumns : data = [label |-> y, token_clean |-> <<>>]
    /\ params_before = params
    /\ params0 = params
    /\ outcome = NoCall

\* a function of params.py is called and ends with o, leaving params as after
Called(name, after, o) ==
    /\ pc' = name
    /\ params_before' = params
    /\ params' = after
    /\ outcome' = o
    /\ UNCHANGED <<data, params0, call_vars>>

CallGetClassificationType ==
    Called("get_classification_type", params, POk(Str(GetClassificationType(params, data))))

CallGetClassificationTypeAndSet ==
    Called("get_classification_type_and_set", ParamsWithClassificationType(params, data),
           POk(Str(GetClassificationType(params, data))))

CallGetLabelBinarize == Called("get_label_binarize", params, GetLabelBinarize(params, data))

CallGetEmbedder == Called("get_embedder", params, GetEmbedder(params))

CallGetLossFunction == Called("get_loss_function", params, GetLossFunction(params))

CallBuildModelCnn == Called("build_model_cnn", params, BuildModelCnn(params))

CallBuildModelRnn == Called("build_model_rnn", params, BuildModelRnn(params))

ParamsNext ==
    \/ CallGetClassificationType
    \/ CallGetClassificationTypeAndSet
    \/ CallGetLabelBinarize
    \/ CallGetEmbedder
    \/ CallGetLossFunction
    \/ CallBuildModelCnn
    \/ CallBuildModelRnn

SpecParams == ParamsInit /\ [][ParamsNext]_vars

\* ---------------------------------------------------------------- params.py: vocabulary
\* params.get("sequence_length_percentil_cutoff", 0.98), in hundredths
DefaultPercentilCutoff == 98

\* params.get("sequence_length_max", 768)
DefaultSequenceLengthMax == 768

\* lengths.quantile(0.98), in hundredths
UsedPercentil == 98

\* the token lists a row of the tokenized column holds
Docs == {<<>>, <<"a">>, <<"a", "b">>, <<"b", "a", "b">>}

\* the values of a series of numbers in ascending order
Sorted(xs) ==
    CHOOSE s \in [1..Len(xs) -> Range(xs)] :
        /\ \A i \in 1..Len(xs) - 1 : s[i] <= s[i + 1]
        /\ \A v \in Range(xs) :
              Cardinality({i \in 1..Len(xs) : s[i] = v}) = Cardinality({i \in 1..Len(xs) : xs[i] = v})

\* int(xs.quantile(q)) of a series that is not empty, q in hundredths: pandas
\* interpolates linearly between the two values around position (n - 1) * q,
\* and int() drops the fraction
QuantileInt(xs, q) ==
    LET s == Sorted(xs)
        pos == (Len(xs) - 1) * q
        lo == pos \div 100 + 1
        hi == Min(lo + 1, Len(xs))
    IN (s[lo] * 100 + (pos % 100) * (s[hi] - s[lo])) \div 100

\* lengths = X.apply(len)
Lengths(X) == [i \in 1..Len(X) |-> Len(X[i])]

\* vocabulary = set(); X.apply(lambda x: vocabulary.update(x))
Vocabulary(X) == UNION {Range(X[i]) : i \in 1..Len(X)}

\* lines 214-218: embedding_input_sequence_length
SequenceLength(p, X) ==
    Min(DictGet(p, "sequence_length_max", DefaultSequenceLengthMax),
        QuantileInt(Lengths(X), UsedPercentil))

\* extract_vocabulary_and_set(params, data): params after the call
ParamsWithVocabulary(p, d) ==
    ("embedding_input_sequence_length" :> SequenceLength(p, d.token_clean))
    @@ ("computed_objects" :>
           (("vocabulary" :> Vocabulary(d.token_clean)) @@ DictGet(p, "computed_objects", <<>>)))
    @@ p

\* "" and 0 stand for a key that is not in params
VocabularyParams ==
    {Opt(q > 0, "sequence_length_percentil_cutoff", q) @@ Opt(m > 0, "sequence_length_max", m)
     @@ Opt(lb # "", "computed_objects", "label_binarizer" :> lb) :
        q \in {0, 25, 50, 98, 100}, m \in 0..2, lb \in {"", "LabelBinarizer"}}

\* the tokenized column: up to MaxRows rows of token lists
TokenizedColumns == UNION {[1..n -> Docs] : n \in 0..MaxRows}

VocabularyInit ==
    /\ CallIdle
    /\ pc = "none"
    /\ params \in VocabularyParams
    /\ \E X \in TokenizedColumns : data = [label |-> NoData.label, token_clean |-> X]
    /\ params_before = params
    /\ params0 = params
    /\ outcome = NoCall

\* on an empty column the quantile is NaN and int(NaN) raises, before params
\* is written
CallExtractVocabularyAndSet ==
    IF data.token_clean = <<>>
    THEN Called("extract_vocabulary_and_set", params, PRaise("ValueError", ""))
    ELSE Called("extract_vocabulary_and_set", ParamsWithVocabulary(params, data), POk(NoValue))

VocabularyNext == CallExtractVocabularyAndSet

SpecVocabulary == VocabularyInit /\ [][VocabularyNext]_vars

\* ---------------------------------------------------------------- params.py: labels
\* the values of a set of numbers in ascending order (classes_ of a binarizer)
SortedSeq(S) ==
    CHOOSE s \in [1..Cardinality(S) -> S] : \A i, j \in 1..Cardinality(S) : i < j => s[i] < s[j]

\* label_binarizer.fit(data[y_column_name]): the binarizer get_label_binarize
\* returns. LabelBinarizer.fit refuses a column without rows; classes_ holds
\* the distinct labels of the column, for a MultiLabelBinarizer those of all
\* the rows' label sets.
FitLabelBinarizer(p, d) ==
    LET kind == GetLabelBinarize(p, d).value.kind
        y == d.label.values
    IN IF kind = "MultiLabelBinarizer"
       THEN POk([kind |-> kind, classes |-> SortedSeq(UNION Range(y))])
       ELSE IF y = <<>> THEN PRaise("ValueError", "")
       ELSE POk([kind |-> kind, classes |-> SortedSeq(Range(y))])

\* create_label_binarizer_and_set(params, data): params after the call;
\* the classification type is stored before the binarizer is built
ParamsWithLabelBinarizer(p, d) ==
    LET p1 == ParamsWithClassificationType(p, d)
        fit == FitLabelBinarizer(p1, d)
    IN IF fit.ok
       THEN ("computed_objects" :>
                (("label_binarizer" :> fit.value) @@ DictGet(p1, "computed_objects", <<>>)))
            @@ p1
       ELSE p1

\* sklearn's type_of_target of a column of single labels
TypeOfTarget(y) == IF Cardinality(Range(y)) <= 2 THEN "binary" ELSE "multiclass"

\* LabelBinarizer.transform(y): one indicator column per class, cut down to
\* one column when y is binary (all 0 when the binarizer has one class)
LabelBinarizerTransform(classes, y) ==
    LET n_classes == Len(classes)
        y_type == IF TypeOfTarget(y) = "binary" /\ n_classes >= 3
                  THEN "multiclass" ELSE TypeOfTarget(y)
        Y == [i \in 1..Len(y) |-> [c \in 1..n_classes |-> IF y[i] = classes[c] THEN 1 ELSE 0]]
    IN IF TypeOfTarget(y) = "binary" /\ n_classes = 1
       THEN [i \in 1..Len(y) |-> <<0>>]
       ELSE IF y_type = "binary"
            THEN [i \in 1..Len(y) |-> <<Y[i][n_classes]>>]
            ELSE Y

\* MultiLabelBinarizer.transform(y): one indicator column per class, always
MultiLabelBinarizerTransform(classes, y) ==
    [i \in 1..Len(y) |-> [c \in 1..Len(classes) |-> IF classes[c] \in y[i] THEN 1 ELSE 0]]

\* compute_binarized_labels(params, data)
ComputeBinarizedLabels(p, d) ==
    IF "computed_objects" \notin DOMAIN p THEN PRaise("KeyError", "")
    ELSE IF "label_binarizer" \notin DOMAIN p["computed_objects"] THEN PRaise("KeyError", "")
    ELSE LET label_binarizer == p["computed_objects"]["label_binarizer"]
             y == IF label_binarizer.kind = "MultiLabelBinarizer"
                  THEN MultiLabelBinarizerTransform(label_binarizer.classes, d.label.values)
                  ELSE LabelBinarizerTransform(label_binarizer.classes, d.label.values)
             output_classes == Len(label_binarizer.classes)
         IN IF output_classes <= 2
            THEN POk(Object("array1d", Flatten(y)))
            ELSE POk(Object("array2d", y))

\* lines 586-587 and 669-670: the units of the prediction layer
OutputClasses(label_binarizer) ==
    IF Len(label_binarizer.classes) > 2 THEN Len(label_binarizer.classes) ELSE 1

\* a column of up to MaxRows single labels with any classification_type but
\* "multi-label", or a column of label sets with "multi-label"
LabelsInit ==
    /\ CallIdle
    /\ pc = "none"
    /\ \/ /\ \E ct \in {"", "None", "binary", "multi-class"} :
                params = Opt(ct # "", "classification_type", ct)
          /\ \E y \in UNION {[1..n -> Labels] : n \in 0..MaxRows} :
                data = [label |-> [ndim |-> 1, values |-> y], token_clean |-> <<>>]
       \/ /\ params = "classification_type" :> "multi-label"
          /\ \E y \in UNION {[1..n -> SUBSET Labels] : n \in 0..MaxRows} :
                data = [label |-> [ndim |-> 1, values |-> y], token_clean |-> <<>>]
    /\ params_before = params
    /\ params0 = params
    /\ outcome = NoCall

CallCreateLabelBinarizerAndSet ==
    Called("create_label_binarizer_and_set", ParamsWithLabelBinarizer(params, data),
           IF FitLabelBinarizer(ParamsWithClassificationType(params, data), data).ok
           THEN POk(NoValue) ELSE PRaise("ValueError", ""))

CallComputeBinarizedLabels ==
    Called("compute_binarized_labels", params, ComputeBinarizedLabels(params, data))

LabelsNext == CallCreateLabelBinarizerAndSet \/ CallComputeBinarizedLabels

SpecLabels == LabelsInit /\ [][LabelsNext]_vars

\* ---------------------------------------------------------------- properties
\* The call has a result series: pool.map returned and pd.concat ran
AfterMap == pc \in {"close", "join", "finalize", "returned"} \/ (pc = "raised" /\ map_exc = "")

\* The call has ended
Ended == pc \in {"returned", "raised"}

\* The rows of the input some call of func raises on, under the bound task
RaisingRows ==
    {i \in 1..Len(df) : ~RunTask(func_with_params, <<ReadDf(df, field_read)[i]>>).ok}

\* C1: for every dataframe, function and n_jobs the result series is the one
\* the bound task computes on the whole, unsplit dataframe (the sequential,
\* n_jobs = 1 computation): entry i is the function's value for row i.
C1_SequentialEquivalence ==
    AfterMap =>
        LET seq == RunTask(func_with_params, ReadDf(df, field_read))
        IN /\ seq.ok
           /\ write_df = seq.series
           /\ \A i \in 1..Len(df) :
                 write_df[i].val = RunTask(func_with_params, <<ReadDf(df, field_read)[i]>>).series[1].val

C1_Witness ==
    /\ pc = "close" /\ n_jobs = 2 /\ Len(df) = 3
    /\ Len(df_split[1]) = 2 /\ Len(df_split[2]) = 1
    /\ write_df[1].val # write_df[2].val

\* C2: whatever order the tasks complete in, the series are concatenated by
\* partition index: the result series is partition 1's outcome, then partition
\* 2's, ..., and its index labels are the row numbers in increasing order.
C2_ConcatByPartitionIndex ==
    AfterMap =>
        /\ write_df = Concat([k \in 1..Len(df_split) |-> RunTask(func_with_params, df_split[k]).series])
        /\ \A i \in 1..Len(write_df) : write_df[i].idx = i

C2_Witness ==
    /\ pc = "close" /\ out_of_order
    /\ Len(df_split) = 2 /\ df_split[1] # <<>> /\ df_split[2] # <<>>
    /\ write_df[1].val # write_df[Len(write_df)].val

\* C3 (as claimed): when the call has raised, its pool is closed and every
\* worker process of the call has exited.
C3_RaisesOnlyAfterWorkersReaped ==
    pc = "raised" => (pool = "joined" /\ \A w \in 1..Len(workers) : workers[w] = "exited")

\* C4: an error of the function on any row is fatal: the call never gets a
\* result series, never runs the finalizer and never returns; once the tasks
\* are done it raises the first task's exception.
C4_RowErrorIsFatal ==
    /\ (pc # "start" /\ RaisingRows # {}) =>
          /\ pc \in {"pool", "map", "wait", "raised"}
          /\ write_df = <<>> /\ ret = NoReturn
          /\ (pc = "raised" => exc = map_exc /\ exc # "")
    /\ map_exc # "" => (pc \in {"wait", "raised"} /\ RaisingRows # {})

C4_Witness ==
    /\ pc = "raised" /\ exc = "ZeroDivisionError"
    /\ \E k \in 1..Len(results) : results[k].ok /\ results[k].series # <<>>

\* C5: the result series has as many entries as the dataframe has rows.
C5_RowCount == AfterMap => Len(write_df) = Len(df)

C5_Witness ==
    /\ pc = "join" /\ Len(df) = 3 /\ n_jobs = 2 /\ Len(write_df) = 3

\* C6 (as claimed): with the default finalizer a call whose tasks all
\* succeeded returns the table of the original columns plus one column named
\* field_write that holds the result series, row by row.
C6_DefaultFinalizerAddsColumn ==
    (Ended /\ map_exc = "" /\ finalizer_func = "provide_concated_dfs") =>
        /\ pc = "returned"
        /\ ret.kind = "table"
        /\ ret.columns = Columns \o <<field_write>>
        /\ \A i \in 1..Len(df) :
              ret.data[i] = AsTable(df).data[i] \o <<write_df[i].val>>

\* C7 (as claimed): while a worker calls the function on the rows of its
\* partition, every call is given the entries of func_params that are no
\* control options as keyword arguments, in column mode and in row mode, and
\* no control option.
C7_ExtrasAreKeywordArguments ==
    (\E w \in 1..Len(workers) : workers[w] = "busy" /\ df_split[running[w]] # <<>>) =>
        LET a == TaskCallArgs(func_with_params)
        IN /\ a.posargs = <<>>
           /\ a.kwargs = func_params
           /\ DOMAIN a.kwargs \cap ControlKeys = {}

\* The tasks partition k is: queued, run by one worker, or done
TaskQueued(k) == k \in Range(taskqueue)

TaskRunners(k) == {w \in 1..Len(workers) : running[w] = k}

\* C8 (as claimed): with as many workers as partitions, once the tasks are
\* done every worker has run exactly one of them.
C8_OneTaskPerWorker ==
    (pc = "wait" /\ AllDone) =>
        \A w \in 1..Len(workers) : Cardinality({k \in 1..Len(ran_by) : ran_by[k] = w}) = 1

\* C8 (amended): every partition task is run exactly once, by one worker
\* process, from its start to its end: at any time a task is either queued
\* and untouched, or running on exactly one worker, or done and on no worker;
\* how many tasks a worker runs is left to the scheduling of the pool.
C8_EachTaskRunOnce ==
    \A k \in 1..Len(results) :
        \/ TaskQueued(k) /\ ran_by[k] = 0 /\ ~results[k].done /\ TaskRunners(k) = {}
        \/ ~TaskQueued(k) /\ ~results[k].done /\ TaskRunners(k) = {ran_by[k]}
              /\ workers[ran_by[k]] = "busy"
        \/ ~TaskQueued(k) /\ results[k].done /\ TaskRunners(k) = {} /\ ran_by[k] # 0

C8_Witness ==
    /\ pc = "wait" /\ AllDone /\ Len(df_split) = 2 /\ Len(workers) = 2
    /\ ran_by[1] = ran_by[2]

\* C9: the call goes on after pool.map (concatenates, finalizes, returns or
\* raises) only when every partition task has completed: no task is queued
\* or running then, and no result is held before.
C9_BlocksUntilAllTasksDone ==
    /\ pc \in {"close", "join", "finalize", "returned", "raised"} =>
          /\ taskqueue = <<>>
          /\ \A k \in 1..Len(df_split) : results[k].done
          /\ \A w \in 1..Len(workers) : workers[w] # "busy"
    /\ (write_df # <<>> \/ ret # NoReturn) => \A k \in 1..Len(df_split) : results[k].done

C9_Witness ==
    /\ pc = "returned" /\ Len(df_split) = 2 /\ out_of_order /\ ret.data # <<>>

\* C10: a call that returns has closed its pool and joined every one of its
\* n_jobs workers; the pool does not exist before the call creates it.
C10_PoolTornDownOnReturn ==
    /\ pc = "returned" =>
          /\ pool = "joined"
          /\ Len(workers) = n_jobs
          /\ \A w \in 1..n_jobs : workers[w] = "exited"
    /\ pc \in {"start", "pool"} => (pool = "none" /\ workers = <<>>)

C10_Witness ==
    /\ pc = "returned" /\ n_jobs = 2 /\ pool = "joined"
    /\ ran_by[1] # ran_by[2]

\* C11: the effective worker count is the given n_jobs when it is positive and
\* the host's processor count when n_jobs is absent or <= 0, and that one value
\* is both the number of partitions and the number of worker processes.
C11_EffectiveWorkerCount ==
    pc # "start" =>
        /\ n_jobs = (IF "n_jobs" \in DOMAIN call_params /\ call_params["n_jobs"] > 0
                     THEN call_params["n_jobs"] ELSE CpuCount)
        /\ Len(df_split) = n_jobs
        /\ pool # "none" => Len(workers) = n_jobs

C11_Witness ==
    /\ pc = "wait" /\ "n_jobs" \in DOMAIN call_params /\ call_params["n_jobs"] = 0
    /\ Len(workers) = CpuCount /\ Len(df_split) = CpuCount

\* The rows of all partitions, as the workers get them
SentItems == UNION {Range(df_split[k]) : k \in 1..Len(df_split)}

\* C12: with field_read the workers are sent only the named column, and every
\* call of the function gets that column's value of one row; without
\* field_read every call gets the entire row.
C12_FieldReadProjection ==
    pc # "start" =>
        \A item \in SentItems :
            LET first == TaskCallArg(func_with_params, item) IN
            IF "field_read" \in DOMAIN call_params
            THEN /\ DOMAIN item.row = {call_params["field_read"]}
                 /\ first.kind = "value"
                 /\ first.arg = df[item.idx][call_params["field_read"]]
            ELSE /\ item.row = df[item.idx]
                 /\ first.kind \in {"row", "raw"}
                 /\ first.kind = "row" => first.arg = df[item.idx]
                 /\ first.kind = "raw" => first.arg = <<df[item.idx]["id"], df[item.idx]["x"]>>

C12_Witness ==
    /\ pc = "wait" /\ field_read = "x" /\ Len(df) = 3
    /\ \E w \in 1..Len(workers) : workers[w] = "busy" /\ Len(df_split[running[w]]) = 2

\* The entries of a keyword dict that are no control options
NonControl(d) == [k \in (DOMAIN d) \ ControlKeys |-> d[k]]

\* raw as the caller gave it (default False)
GivenRaw == "raw" \in DOMAIN call_params /\ call_params["raw"]

\* C13: raw is never passed on to the function; without field_read every call
\* gets a positional tuple when raw is true and a row with named fields when it
\* is false (so a function that reads fields by name fails on every row with
\* raw); with field_read the tasks compute what the column task without any raw
\* option computes, so the call's result is the same for both values of raw.
C13_RawOnlyInRowMode ==
    pc # "start" =>
        LET a == TaskCallArgs(func_with_params) IN
        /\ "raw" \notin Range(a.posargs) /\ "raw" \notin DOMAIN a.kwargs
        /\ field_read = "None" =>
              /\ \A item \in SentItems :
                    TaskCallArg(func_with_params, item).kind = (IF GivenRaw THEN "raw" ELSE "row")
              /\ (GivenRaw /\ func = "by_name") => RaisingRows = 1..Len(df)
        /\ field_read # "None" =>
              /\ \A item \in SentItems : TaskCallArg(func_with_params, item).kind = "value"
              /\ \A k \in 1..Len(df_split) :
                    RunTask(func_with_params, df_split[k]) =
                       TransformSubDfByField(field_read, func, NonControl(call_params), df_split[k])
              /\ AfterMap =>
                    write_df = TransformSubDfByField(field_read, func, NonControl(call_params),
                                                     ReadDf(df, field_read)).series

C13_Witness ==
    /\ pc = "returned" /\ GivenRaw /\ field_read = "None" /\ func = "by_pos"
    /\ Len(ret.data) = 2

\* field_write as the caller gave it (default "output")
GivenFieldWrite == DictGet(call_params, "field_write", "output")

\* The function's value for row i of the input, under the bound task
RowOutput(i) == RunTask(func_with_params, <<ReadDf(df, field_read)[i]>>).series[1].val

\* C14: with provide_computed_df the call returns a table of exactly one
\* column, named field_write, that holds the result series; with
\* provide_computed_series_as_list it returns a plain sequence with one element
\* per input row, element i the output for row i, whatever field_write is.
C14_ComputedDfAndList ==
    pc = "returned" =>
        /\ Len(ret.data) = Len(df)
        /\ \A i \in 1..Len(df) : ret.data[i] = <<RowOutput(i)>>
        /\ finalizer_func = "provide_computed_df" =>
              /\ ret.kind = "table"
              /\ ret.columns = <<GivenFieldWrite>>
              /\ ret.index = [i \in 1..Len(df) |-> i]
        /\ finalizer_func = "provide_computed_series_as_list" =>
              /\ ret.kind = "list"
              /\ ret.columns = <<>> /\ ret.index = <<>>

C14_Witness ==
    /\ pc = "returned" /\ finalizer_func = "provide_computed_df"
    /\ field_write = "x2" /\ Len(ret.data) = 3 /\ ret.data[1] # ret.data[3]

\* C16: no step of a call changes the caller's dataframe, whether the call
\* returns or raises, with any finalizer, with or without field_read; and no
\* step of a worker changes a partition, so what one worker's task writes to
\* its rows is seen by no other worker.
C16_InputNeverModified ==
    [][/\ df' = df
       /\ pc # "start" => df_split' = df_split]_vars

C16_Witness ==
    /\ Ended /\ func = "clobber" /\ map_exc = "" /\ Len(df) = 3
    /\ \A i \in 1..Len(df) : df[i]["x"] = 1

\* The number of rows in the partitions before partition k
RowsBefore(k) == Len(Flatten(SubSeq(df_split, 1, k - 1)))

\* C18: the split gives exactly n_jobs partitions; partition k holds the rows
\* that follow those of the partitions before it, in row order, so the
\* partitions are contiguous, do not overlap and together hold every row once;
\* the sizes of any two partitions differ by at most one.
C18_BalancedContiguousSplit ==
    pc # "start" =>
        /\ Len(df_split) = n_jobs
        /\ \A k \in 1..Len(df_split) : \A i \in 1..Len(df_split[k]) :
              /\ df_split[k][i].idx = RowsBefore(k) + i
              /\ df_split[k][i] = ReadDf(df, field_read)[RowsBefore(k) + i]
        /\ RowsBefore(Len(df_split) + 1) = Len(df)
        /\ \A j, k \in 1..Len(df_split) : Len(df_split[j]) - Len(df_split[k]) <= 1

C18_Witness ==
    /\ pc = "pool" /\ Len(df) = 3 /\ n_jobs = 2
    /\ Len(df_split[1]) = 2 /\ df_split[2][1].idx = 3

\* C17: fit, transform and predict never change the adapter's stored function
\* and configuration: the stored dict always holds every option given at
\* construction; fit returns the adapter; transform and predict end as the
\* call parallelize_dataframe(X, func, **func_params) with the options of
\* construction ends, and a repeated call on the same X returns what the first
\* call returned.
C17_AdapterStateImmutable ==
    /\ self_func_params = call_params
    /\ pc = "fit" => ret = SelfRef
    /\ pc \in {"transform", "predict"} =>
          /\ [ok |-> exc = "", exc |-> exc, value |-> ret] \in CallOutcomes(df, func, call_params)
          /\ first_outcome.calls >= 1
          /\ first_outcome.ok = (exc = "")
          /\ first_outcome.ok => ret = first_outcome.value

C17_Witness ==
    /\ pc = "predict" /\ first_outcome.calls = 2 /\ exc = "" /\ Len(ret.data) = 3
    /\ {"n_jobs", "field_read", "raw", "field_write", "finalizer_func"} \subseteq DOMAIN self_func_params

\* the unrecognized values among the options the function called last
\* dispatches on, as params held them when it was called
UnknownValues ==
    LET ct == IF "classification_type" \in DOMAIN params_before
                 /\ params_before["classification_type"] \notin ClassificationTypes \cup {"None"}
              THEN {params_before["classification_type"]} ELSE {}
        et == IF "embedding_type" \in DOMAIN params_before
                 /\ params_before["embedding_type"] \notin EmbeddingTypes
              THEN {params_before["embedding_type"]} ELSE {}
        rt == IF "rnn_type" \in DOMAIN params_before
                 /\ params_before["rnn_type"] \notin RnnTypes
              THEN {params_before["rnn_type"]} ELSE {}
    IN CASE pc = "get_embedder" -> et
         [] pc \in {"get_label_binarize", "get_loss_function", "build_model_cnn"} -> ct
         [] pc = "build_model_rnn" -> ct \cup rt
         [] OTHER -> {}

\* C15: a dispatching function (get_embedder, get_label_binarize,
\* get_loss_function, build_model_cnn, build_model_rnn) called with an
\* unrecognized value of an option it dispatches on raises an error that names
\* an offending value; it never returns a result.
C15_UnknownOptionRaises ==
    UnknownValues # {} => ~outcome.ok /\ outcome.names \in UnknownValues

\* C19: get_classification_type returns the classification_type of params when
\* there is one, else "multi-label" for a label column of more than one
\* dimension, else "multi-class" for more than 2 distinct labels, else "binary",
\* and leaves params as it was; get_classification_type_and_set returns the
\* same and changes params only by storing the returned value under
\* "classification_type", so a second call returns the same and changes nothing.
C19_ClassificationTypeInference ==
    LET given == DictGet(params_before, "classification_type", "None")
        y == data.label
        expected == IF given # "None" THEN given
                    ELSE IF y.ndim > 1 THEN "multi-label"
                    ELSE IF Cardinality(Range(y.values)) > 2 THEN "multi-class"
                    ELSE "binary"
    IN /\ pc \in {"get_classification_type", "get_classification_type_and_set"} =>
             outcome = POk(Str(expected))
       /\ pc = "get_classification_type" => params = params_before
       /\ pc = "get_classification_type_and_set" =>
             /\ DOMAIN params = DOMAIN params_before \cup {"classification_type"}
             /\ params["classification_type"] = outcome.value.detail[1]
             /\ \A k \in DOMAIN params_before \ {"classification_type"} :
                   params[k] = params_before[k]
             /\ given # "None" => params = params_before

\* a second get_classification_type_and_set, after one that inferred
\* "multi-class" from three distinct labels
C19_Witness ==
    /\ pc = "get_classification_type_and_set"
    /\ "classification_type" \notin DOMAIN params0
    /\ "classification_type" \in DOMAIN params_before
    /\ outcome = POk(Str("multi-class"))
    /\ params = params_before

\* C20: after extract_vocabulary_and_set, params["embedding_input_sequence_length"]
\* is the smaller of sequence_length_max (default 768) and the length at the
\* configured sequence_length_percentil_cutoff (default 0.98) of the rows'
\* token counts, so it exceeds neither sequence_length_max nor the longest
\* row; the stored vocabulary is the set of the tokens of the column.
C20_SequenceLengthAtConfiguredCutoff ==
    pc = "extract_vocabulary_and_set" /\ outcome.ok =>
        LET cutoff == DictGet(params_before, "sequence_length_percentil_cutoff", DefaultPercentilCutoff)
            sequence_length_max == DictGet(params_before, "sequence_length_max", DefaultSequenceLengthMax)
            lengths == Lengths(data.token_clean)
            stored == params["embedding_input_sequence_length"]
        IN /\ stored = Min(sequence_length_max, QuantileInt(lengths, cutoff))
           /\ stored <= sequence_length_max
           /\ \E i \in 1..Len(lengths) : stored <= lengths[i]
           /\ params["computed_objects"]["vocabulary"] = Vocabulary(data.token_clean)

\* C21: the labels compute_binarized_labels returns have one entry per row of
\* the data, and their width is the number of units of the prediction layer
\* the model builders make for the binarizer (1 for at most 2 classes, else
\* one per class): flattened labels go with 1 unit and are as many as the rows.
C21_LabelWidthMatchesOutputUnits ==
    pc = "compute_binarized_labels" /\ outcome.ok =>
        LET units == OutputClasses(params_before["computed_objects"]["label_binarizer"])
            y == outcome.value
        IN /\ Len(y.detail) = Len(data.label.values)
           /\ y.kind = "array1d" => units = 1
           /\ y.kind = "array2d" => \A i \in 1..Len(y.detail) : Len(y.detail[i]) = units

====
